---- MODULE Spec2Model ----
(***************************************************************************)
(* Model of event_notifier_project/app.py: the Category and Event tables,  *)
(* the JSON loader load_data_into_db, the bootstrap init_db and the        *)
(* create / update / delete request handlers.  The GET handlers only read  *)
(* the tables and are left out.                                            *)
(*                                                                         *)
(* Text is modelled as sequences of one-character strings, so that the     *)
(* date parser and int() are computed character by character.  The Korean  *)
(* literals of the source are written in ASCII:                            *)
(*   categories_list   festival, popup store, discount, exhibition,        *)
(*                     performance                                         *)
(*   festival keys     f_title, f_location, f_start, f_end, f_description  *)
(*   performance keys  p_title, p_location, p_start, p_end, p_description  *)
(***************************************************************************)
EXTENDS Integers, Sequences, FiniteSets, TLC

\* ------------------------------------------------------------- bounds
\* longest record list a dataset file or a direct call holds
MaxRecords == 2
\* number of create / update / delete requests in one behaviour
MaxOps == 1
\* number of process starts (runs of init_db) in one behaviour
MaxRuns == 2

\* ------------------------------------------------------------- values
\* A JSON / Python value: t is its type, v its text.
Str(s) == [t |-> "str", v |-> s]
Num(s) == [t |-> "num", v |-> s]
None == [t |-> "null", v |-> <<>>]

Digits == {"0", "1", "2", "3", "4", "5", "6", "7", "8", "9"}

DigitVal ==
  ("0" :> 0) @@ ("1" :> 1) @@ ("2" :> 2) @@ ("3" :> 3) @@ ("4" :> 4) @@
  ("5" :> 5) @@ ("6" :> 6) @@ ("7" :> 7) @@ ("8" :> 8) @@ ("9" :> 9)

AllDigits(s) == \A i \in DOMAIN s : s[i] \in Digits

RECURSIVE NumVal(_)
NumVal(s) ==
  IF s = <<>> THEN 0
  ELSE 10 * NumVal(SubSeq(s, 1, Len(s) - 1)) + DigitVal[s[Len(s)]]

\* Python truth value of a JSON value, negated: `not x`.
Falsy(x) ==
  \/ x.t = "null"
  \/ x.t = "str" /\ x.v = <<>>
  \/ x.t = "num" /\ NumVal(x.v) = 0

\* ------------------------------------------------------ date parsing
NoDate == [ok |-> FALSE, y |-> 0, m |-> 0, d |-> 0]

IsLeap(y) == (y % 4 = 0 /\ y % 100 # 0) \/ y % 400 = 0

DaysIn(y, m) ==
  IF m = 2 THEN (IF IsLeap(y) THEN 29 ELSE 28)
  ELSE IF m \in {4, 6, 9, 11} THEN 30 ELSE 31

\* %m: 1[0-2]|0[1-9]|[1-9]
MonthField(s) == Len(s) \in {1, 2} /\ AllDigits(s) /\ NumVal(s) \in 1..12

\* %d: 3[01]|[12]\d|0[1-9]|[1-9]| [1-9]
DayField(s) ==
  \/ Len(s) \in {1, 2} /\ AllDigits(s) /\ NumVal(s) \in 1..31
  \/ Len(s) = 2 /\ s[1] = " " /\ s[2] \in Digits \ {"0"}

DayVal(s) == IF s[1] = " " THEN DigitVal[s[2]] ELSE NumVal(s)

\* The split of s as yyyy-m-d with a month field of ml characters.
YmdShape(s, ml) ==
  /\ Len(s) \in {7 + ml, 8 + ml}
  /\ AllDigits(SubSeq(s, 1, 4))
  /\ s[5] = "-"
  /\ MonthField(SubSeq(s, 6, 5 + ml))
  /\ s[6 + ml] = "-"
  /\ DayField(SubSeq(s, 7 + ml, Len(s)))

\* datetime.strptime(x, '%Y-%m-%d').date(): the date, or NoDate where the
\* call raises (TypeError for a value that is no string, ValueError for a
\* string the format does not match or a day the month does not have).
Strptime(x) ==
  IF x.t # "str" THEN NoDate
  ELSE LET s == x.v
           fits == {ml \in {1, 2} : YmdShape(s, ml)}
       IN IF fits = {} THEN NoDate
          ELSE LET ml == CHOOSE k \in fits : TRUE
                   y == NumVal(SubSeq(s, 1, 4))
                   m == NumVal(SubSeq(s, 6, 5 + ml))
                   d == DayVal(SubSeq(s, 7 + ml, Len(s)))
               IN IF y >= 1 /\ d <= DaysIn(y, m)
                  THEN [ok |-> TRUE, y |-> y, m |-> m, d |-> d]
                  ELSE NoDate

\* int(x) of a form field: the number, or ok = FALSE where it raises.
IntParse(s) ==
  IF s # <<>> /\ AllDigits(s) THEN [ok |-> TRUE, n |-> NumVal(s)]
  ELSE IF Len(s) > 1 /\ s[1] \in {"-", "+"} /\ AllDigits(Tail(s))
  THEN [ok |-> TRUE, n |-> IF s[1] = "-" THEN 0 - NumVal(Tail(s)) ELSE NumVal(Tail(s))]
  ELSE [ok |-> FALSE, n |-> 0]

\* ------------------------------------------------------------ tables
\* categories_list of init_db
categories_list == <<"festival", "popup store", "discount", "exhibition", "performance">>

Max(S) == CHOOSE n \in S : \A k \in S : k <= n

\* The row id SQLite gives an INTEGER PRIMARY KEY left unset.
NewId(ids) == IF ids = {} THEN 1 ELSE Max(ids) + 1

CategoryIds(cats) == {c.category_id : c \in cats}
CategoryNames(cats) == {c.category_name : c \in cats}
EventIds(evs) == {e.event_id : e \in evs}

\* .date() of a parsed date, as a db.Date column holds it.
DateOf(p) == [y |-> p.y, m |-> p.m, d |-> p.d]

\* Event(title=..., ...): a pending row, its event_id not yet given.
EventRow(title, description, location, start_date, end_date, category_id) ==
  [title |-> title, description |-> description, location |-> location,
   start_date |-> DateOf(start_date), end_date |-> DateOf(end_date),
   category_id |-> category_id]

WithId(row, id) ==
  [event_id |-> id, title |-> row.title, description |-> row.description,
   location |-> row.location, start_date |-> row.start_date,
   end_date |-> row.end_date, category_id |-> row.category_id]

WithoutId(e) ==
  [title |-> e.title, description |-> e.description, location |-> e.location,
   start_date |-> e.start_date, end_date |-> e.end_date,
   category_id |-> e.category_id]

\* The constraints a flush checks on an Event row: the nullable=False text
\* columns and, where SQLite enforces foreign keys, the category reference.
RowViolates(row, cats, fk) ==
  \/ row.title.t = "null"
  \/ row.location.t = "null"
  \/ fk /\ row.category_id \notin CategoryIds(cats)

\* The INSERTs of a flush, in the order the rows were added.
RECURSIVE Flush(_, _)
Flush(evs, pending) ==
  IF pending = <<>> THEN evs
  ELSE Flush(evs \cup {WithId(Head(pending), NewId(EventIds(evs)))}, Tail(pending))

\* ------------------------------------------------------ field maps
\* festival_key_map and performance_key_map of init_db
festival_key_map ==
  [title |-> "f_title", location |-> "f_location", start_date |-> "f_start",
   end_date |-> "f_end", description |-> "f_description"]

performance_key_map ==
  [title |-> "p_title", location |-> "p_location", start_date |-> "p_start",
   end_date |-> "p_end", description |-> "p_description"]

LogicalNames == {"title", "location", "description", "start_date", "end_date"}

\* A field map that lacks one logical name (no caller of the source passes one).
Without(km, name) == [k \in DOMAIN km \ {name} |-> km[k]]

\* Field maps of direct calls of the loader.
KeyMaps ==
  {festival_key_map, Without(festival_key_map, "end_date"),
   Without(festival_key_map, "title")}

\* ---------------------------------------------------------- records
\* A record of a dataset: a JSON object (map = TRUE, f its members) or any
\* other JSON value (map = FALSE), which has no get method.
NotMap == [map |-> FALSE, f |-> <<>>]
Obj(f) == [map |-> TRUE, f |-> f]

\* dict.get(key, default)
ItemGet(item, key, default) == IF key \in DOMAIN item.f THEN item.f[key] ELSE default

D0601 == <<"2", "0", "2", "5", "-", "0", "6", "-", "0", "1">>
D0603 == <<"2", "0", "2", "5", "-", "0", "6", "-", "0", "3">>
D61 == <<"2", "0", "2", "5", "-", "6", "-", "1">>
D63 == <<"2", "0", "2", "5", "-", "6", "-", "3">>
DSlash == <<"2", "0", "2", "5", "/", "0", "6", "/", "0", "1">>
DFeb30 == <<"2", "0", "2", "5", "-", "0", "2", "-", "3", "0">>
DNum == <<"2", "0", "2", "5", "0", "6", "0", "1">>

Dated(km, title, start, end) ==
  (km.title :> title) @@ (km.location :> Str(<<"P">>)) @@
  (km.start_date :> start) @@ (km.end_date :> end)

ItemGood(km) == Obj(Dated(km, Str(<<"A">>), Str(D0601), Str(D0603)))
ItemShort(km) == Obj(Dated(km, Str(<<"A">>), Str(D61), Str(D63)))
ItemNoEnd(km) ==
  Obj((km.title :> Str(<<"A">>)) @@ (km.location :> Str(<<"P">>)) @@
      (km.start_date :> Str(D0601)))
ItemEmptyStart(km) == Obj(Dated(km, Str(<<"A">>), Str(<<>>), Str(D0603)))
ItemBadFormat(km) == Obj(Dated(km, Str(<<"A">>), Str(DSlash), Str(D0603)))
ItemBadDay(km) == Obj(Dated(km, Str(<<"A">>), Str(D0601), Str(DFeb30)))
ItemNumDate(km) == Obj(Dated(km, Str(<<"A">>), Num(DNum), Str(D0603)))
ItemNullTitle(km) == Obj(Dated(km, None, Str(D0601), Str(D0603)))

\* Records whose start and end date the format accepts.
DatedItems(km) == {ItemGood(km), ItemShort(km), ItemNullTitle(km)}

\* Records whose start or end date is missing, empty or not parseable.
UndatedItems(km) ==
  {ItemNoEnd(km), ItemEmptyStart(km), ItemBadFormat(km), ItemBadDay(km),
   ItemNumDate(km)}

Items(km) == DatedItems(km) \cup UndatedItems(km) \cup {NotMap}

SeqsUpTo(S, n) == UNION {[1..k -> S] : k \in 0..n}

\* The value of "records": a list of records, or a value no loop can
\* iterate (iter = FALSE: a number other than 0).
ListOf(items) == [iter |-> TRUE, items |-> items]
NotIterable == [iter |-> FALSE, items |-> <<>>]

DataLists(km) == {ListOf(l) : l \in SeqsUpTo(Items(km), MaxRecords)}

\* ------------------------------------------------------------ files
\* A dataset file: missing, not JSON, a JSON array, or a JSON object with
\* or without a "records" member.
FileKinds == {"missing", "malformed", "array", "object"}

Files(km) ==
  {[kind |-> k, has |-> FALSE, records |-> ListOf(<<>>)] : k \in FileKinds}
  \cup {[kind |-> "object", has |-> TRUE, records |-> r] :
         r \in DataLists(km) \cup {NotIterable}}

\* load_json_file: none = TRUE is the None it returns for a missing file
\* and for any exception of json.load or of full_data.get.
load_json_file(file) ==
  IF file.kind # "object" THEN [none |-> TRUE, data |-> ListOf(<<>>)]
  ELSE IF file.has THEN [none |-> FALSE, data |-> file.records]
  ELSE [none |-> FALSE, data |-> ListOf(<<>>)]

\* `not data_list` of a list or number
EmptyData(data) == data.iter /\ data.items = <<>>

\* ------------------------------------------------------------ state
VARIABLES
  db_exists,    \* os.path.exists(db_path)
  categories,   \* committed rows of table category
  events,       \* committed rows of table event
  fk_enforced,  \* whether the SQLite build checks foreign keys
  session,      \* db.session: Event rows added and not yet committed
  pc,           \* position of the process
  data_list,    \* load_data_into_db: argument
  cat_id,       \* load_data_into_db: argument
  key_map,      \* load_data_into_db: argument
  idx,          \* load_data_into_db: position of the for loop
  count,        \* load_data_into_db: local count
  ret_to,       \* position the running load_data_into_db returns to
  ret,          \* count the last completed load_data_into_db returned (-1: none)
  outcome,      \* branch each record of the running or last call took
  before,       \* table event as the running or last call found it
  boot,         \* what the running or last init_db found and decided
  req,          \* the last request a handler served
  resp,         \* status of the last response of a request handler
  ops,          \* requests handled
  runs          \* process starts

store == <<db_exists, categories, events>>
frame == <<data_list, cat_id, key_map, idx, count, ret_to>>
vars ==
  <<db_exists, categories, events, fk_enforced, session, pc, data_list, cat_id,
    key_map, idx, count, ret_to, ret, outcome, before, boot, req, resp, ops,
    runs>>

\* ----------------------------------------------- load_data_into_db
DefaultTitle == Str(<<"u", "n", "t", "i", "t", "l", "e", "d">>)
DefaultLocation == Str(<<"u", "n", "k", "n", "o", "w", "n">>)

\* Lines 57-61 raise: key_map[name] of a name the map lacks (KeyError) or
\* item.get of a record that is no map (AttributeError).
ExtractionRaises(item, km) == ~item.map \/ ~(LogicalNames \subseteq DOMAIN km)

\* The handler of line 87 evaluates item.get(key_map['title']) itself.
HandlerRaises(item, km) == ~item.map \/ "title" \notin DOMAIN km

\* Lines 63-72: both raw dates are truthy and both parse.
DatesAccepted_StartOnly(start_date_raw, end_date_raw) ==
  ~Falsy(start_date_raw) /\ Strptime(start_date_raw).ok
DatesAccepted(start_date_raw, end_date_raw) ==
  /\ ~(Falsy(start_date_raw) \/ Falsy(end_date_raw))
  /\ Strptime(start_date_raw).ok
  /\ Strptime(end_date_raw).ok

\* The branch one pass of the loop body takes:
\*   staged   the row is added to the session and counted (lines 74-83)
\*   skipped  continue of line 64 or of line 72
\*   logged   the handler of lines 85-87 prints and the loop goes on
\*   raised   the handler itself raises, out of load_data_into_db
RecordOutcome(item, km) ==
  IF ExtractionRaises(item, km)
  THEN (IF HandlerRaises(item, km) THEN "raised" ELSE "logged")
  ELSE IF DatesAccepted(ItemGet(item, km.start_date, None),
                        ItemGet(item, km.end_date, None))
  THEN "staged" ELSE "skipped"

\* Line 83: count grows with each staged row only.
CountAfter_EveryRecord(c, o) == c + 1
CountAfter(c, o) == IF o = "staged" THEN c + 1 ELSE c

\* Lines 57-59 and 74-81
NewEvent(item, km, cid) ==
  EventRow(ItemGet(item, km.title, DefaultTitle),
           ItemGet(item, km.description, Str(<<>>)),
           ItemGet(item, km.location, DefaultLocation),
           Strptime(ItemGet(item, km.start_date, None)),
           Strptime(ItemGet(item, km.end_date, None)),
           cid)

\* db.session.commit() raises IntegrityError: a pending row breaks a constraint.
CommitRaises(pending, cats, fk) ==
  \E i \in DOMAIN pending : RowViolates(pending[i], cats, fk)

NoFrame ==
  /\ data_list' = ListOf(<<>>)
  /\ cat_id' = 0
  /\ key_map' = <<>>
  /\ idx' = 0
  /\ count' = 0
  /\ ret_to' = "none"

\* Lines 48-53: the empty list returns 0; `for` over a value that is no
\* list raises TypeError outside every try.
LoadBegin ==
  /\ pc = "call"
  /\ outcome' = <<>>
  /\ before' = events
  /\ IF EmptyData(data_list)
     THEN pc' = ret_to /\ ret' = 0 /\ NoFrame
     ELSE /\ pc' = IF data_list.iter THEN "loop" ELSE "raised"
          /\ ret' = -1
          /\ idx' = 1
          /\ count' = 0
          /\ UNCHANGED <<data_list, cat_id, key_map, ret_to>>
  /\ UNCHANGED <<store, fk_enforced, session, boot, req, resp, ops, runs>>

\* Lines 54-87: one pass of the loop body.  An exception that leaves the
\* function ends the app context, whose teardown drops the session.
LoadRecord ==
  /\ pc = "loop"
  /\ idx <= Len(data_list.items)
  /\ LET item == data_list.items[idx]
         o == RecordOutcome(item, key_map)
     IN /\ outcome' = Append(outcome, o)
        /\ session' = IF o = "staged" THEN Append(session, NewEvent(item, key_map, cat_id))
                      ELSE IF o = "raised" THEN <<>> ELSE session
        /\ count' = CountAfter(count, o)
        /\ pc' = IF o = "raised" THEN "raised" ELSE "loop"
        /\ idx' = idx + 1
  /\ UNCHANGED <<store, fk_enforced, data_list, cat_id, key_map, ret_to, ret,
                 before, boot, req, resp, ops, runs>>

\* Lines 89-90: the one commit, then the return of count.
LoadCommit ==
  /\ pc = "loop"
  /\ idx > Len(data_list.items)
  /\ session' = <<>>
  /\ IF CommitRaises(session, categories, fk_enforced)
     THEN /\ pc' = "raised"
          /\ UNCHANGED <<events, ret, frame>>
     ELSE /\ events' = Flush(events, session)
          /\ ret' = count
          /\ pc' = ret_to
          /\ NoFrame
  /\ UNCHANGED <<db_exists, categories, fk_enforced, outcome, before, boot,
                 req, resp, ops, runs>>

\* ------------------------------------------------------ direct calls
\* The five rows init_db seeds into an empty table.
SeededCategories ==
  {[category_id |-> i, category_name |-> categories_list[i]] : i \in DOMAIN categories_list}

NoReq == [op |-> "none", event_id |-> 0, form |-> <<>>]

NoBoot == [stale |-> FALSE, entered |-> FALSE, removed |-> FALSE,
           categories |-> {}, events |-> {}]

OldEvent ==
  WithId(EventRow(Str(<<"O">>), Str(<<>>), Str(<<"P">>), Strptime(Str(D0601)),
                  Strptime(Str(D0603)), 1), 1)

\* One call load_data_into_db(data_list, cat_id, key_map) on a seeded store.
InitLoad ==
  /\ db_exists = TRUE
  /\ categories = SeededCategories
  /\ events \in {{}, {OldEvent}}
  /\ fk_enforced \in BOOLEAN
  /\ session = <<>>
  /\ pc = "call"
  /\ data_list \in DataLists(festival_key_map) \cup {NotIterable}
  /\ cat_id \in {1, 9}
  /\ key_map \in KeyMaps
  /\ idx = 0
  /\ count = 0
  /\ ret_to = "exit"
  /\ ret = -1
  /\ outcome = <<>>
  /\ before = {}
  /\ boot = NoBoot
  /\ req = NoReq
  /\ resp = "none"
  /\ ops = 0
  /\ runs = 0

NextLoad == LoadBegin \/ LoadRecord \/ LoadCommit

SpecLoad == InitLoad /\ [][NextLoad]_vars

\* ---------------------------------------------------------- init_db
\* The category count line 115 expects.
ExpectedCategoryCount == 5

\* Line 109: the file is missing, or table category has no row.
NeedsRecreate(exists, cats) == ~exists \/ cats = {}

\* Lines 111-115: an existing, non-empty store whose category count is off.
CountMismatch_OnlyFewer(exists, cats) ==
  exists /\ cats # {} /\ Cardinality(cats) < 5
CountMismatch(exists, cats) ==
  exists /\ ~NeedsRecreate(exists, cats) /\ Cardinality(cats) # ExpectedCategoryCount

\* Line 120: `db_needs_recreate or not Event.query.first()`
EntersInit_Always(needs, evs) == TRUE
EntersInit(needs, evs) == needs \/ evs = {}

\* Lines 126-132: each name of categories_list no row carries yet is added.
RECURSIVE SeedFrom(_, _)
SeedFrom(cats, i) ==
  IF i > Len(categories_list) THEN cats
  ELSE LET name == categories_list[i]
       IN SeedFrom(IF name \in CategoryNames(cats) THEN cats
                   ELSE cats \cup {[category_id |-> NewId(CategoryIds(cats)),
                                     category_name |-> name]},
                   i + 1)

SeedCategories_NoLookup(cats) ==
  cats \cup {[category_id |-> NewId(CategoryIds(cats)) + i - 1,
               category_name |-> categories_list[i]] : i \in DOMAIN categories_list}
SeedCategories(cats) == SeedFrom(cats, 1)

\* category_map.get(name) of lines 135, 142 and 163
CategoryMapGet(cats, name) ==
  IF name \in CategoryNames(cats)
  THEN [found |-> TRUE,
        id |-> (CHOOSE c \in cats : c.category_name = name).category_id]
  ELSE [found |-> FALSE, id |-> 0]

\* Lines 109-135: the staleness check, os.remove, create_all and the seeding.
\* os.remove leaves no store; create_all then makes the file with both
\* tables empty, or changes nothing where they exist.
InitDb ==
  /\ pc = "start"
  /\ LET needs == NeedsRecreate(db_exists, categories)
         removed == CountMismatch(db_exists, categories)
         cats == IF removed THEN {} ELSE categories
         evs == IF removed THEN {} ELSE events
         enter == EntersInit(needs \/ removed, evs)
     IN /\ boot' = [stale |-> needs \/ removed, entered |-> enter,
                    removed |-> removed, categories |-> categories,
                    events |-> events]
        /\ IF enter
           THEN /\ db_exists' = TRUE
                /\ categories' = SeedCategories(cats)
                /\ events' = evs
                /\ pc' = "festival"
           ELSE /\ pc' = "returned"
                /\ UNCHANGED store
  /\ UNCHANGED <<fk_enforced, session, frame, ret, outcome, before, req, resp,
                 ops, runs>>

\* `if data and cat_id is not None` of lines 154 and 175
LoadsDataset(loaded, cat) == ~loaded.none /\ ~EmptyData(loaded.data) /\ cat.found

\* Lines 142-155 and 163-176: read one dataset file and, if it gave data,
\* call load_data_into_db.
Dataset(here, name, km, next) ==
  /\ pc = here
  /\ \E file \in Files(km) :
       LET loaded == load_json_file(file)
           cat == CategoryMapGet(categories, name)
       IN IF LoadsDataset(loaded, cat)
          THEN /\ pc' = "call"
               /\ data_list' = loaded.data
               /\ cat_id' = cat.id
               /\ key_map' = km
               /\ ret_to' = next
               /\ UNCHANGED <<idx, count>>
          ELSE /\ pc' = next
               /\ UNCHANGED frame
  /\ UNCHANGED <<store, fk_enforced, session, ret, outcome, before, boot, req,
                 resp, ops, runs>>

FestivalDataset == Dataset("festival", "festival", festival_key_map, "performance")

PerformanceDataset == Dataset("performance", "performance", performance_key_map, "returned")

\* ------------------------------------------------- request handlers
\* A submitted form: field name -> text.  request.form[k] raises for a
\* field the form lacks.
Form(start, cat) ==
  [title |-> <<"B">>, location |-> <<"Q">>, start_date |-> start,
   end_date |-> D0603, category_id |-> cat]

Forms ==
  {Form(D0601, <<"1">>), Form(D0601, <<"9", "9">>), Form(D0601, <<"a", "b", "c">>),
   Form(DSlash, <<"1">>), Without(Form(D0601, <<"1">>), "location")}

FormDate(form, k) == IF k \in DOMAIN form THEN Strptime(Str(form[k])) ELSE NoDate

FormInt(form, k) == IF k \in DOMAIN form THEN IntParse(form[k]) ELSE [ok |-> FALSE, n |-> 0]

\* The first of the six statements of lines 200-205 (222-227) that raises,
\* 0 if none does.
FailAt(form) ==
  IF "title" \notin DOMAIN form THEN 1
  ELSE IF "location" \notin DOMAIN form THEN 3
  ELSE IF ~FormDate(form, "start_date").ok THEN 4
  ELSE IF ~FormDate(form, "end_date").ok THEN 5
  ELSE IF ~FormInt(form, "category_id").ok THEN 6
  ELSE 0

\* Lines 200-206: the Event a form that raises nowhere describes.
FormEvent(form) ==
  EventRow(Str(form.title),
           Str(IF "description" \in DOMAIN form THEN form.description ELSE <<>>),
           Str(form.location), FormDate(form, "start_date"),
           FormDate(form, "end_date"), FormInt(form, "category_id").n)

\* Lines 222-227: the event with its attributes assigned one by one, as far
\* as the statements before the first raising one go.
Assigned(e, form) ==
  LET n == IF FailAt(form) = 0 THEN 7 ELSE FailAt(form)
  IN [event_id |-> e.event_id,
      title |-> IF n > 1 THEN Str(form.title) ELSE e.title,
      description |-> IF n > 2
                      THEN Str(IF "description" \in DOMAIN form THEN form.description ELSE <<>>)
                      ELSE e.description,
      location |-> IF n > 3 THEN Str(form.location) ELSE e.location,
      start_date |-> IF n > 4 THEN DateOf(FormDate(form, "start_date"))
                     ELSE e.start_date,
      end_date |-> IF n > 5 THEN DateOf(FormDate(form, "end_date"))
                   ELSE e.end_date,
      category_id |-> IF n > 6 THEN FormInt(form, "category_id").n ELSE e.category_id]

\* db.session.rollback(): the table is what was committed; what the
\* session held is dropped.
RollbackKeepsPending(committed, pending) == pending
Rollback(committed, pending) == committed

\* A successful db.session.commit(): the table is what the session holds.
Commit(committed, pending) == pending

Serving == pc \in {"returned", "serving"}

Respond(op, event_id, form, status) ==
  /\ req' = [op |-> op, event_id |-> event_id, form |-> form]
  /\ resp' = status
  /\ ops' = ops + 1
  /\ pc' = "serving"
  /\ UNCHANGED <<db_exists, categories, fk_enforced, session, frame, ret,
                 outcome, before, boot, runs>>

\* event_create, POST (lines 198-212).  fault: the commit fails for a reason
\* of the store itself (locked or unwritable file); the handlers are where
\* the source catches it, so they are where it is an input.
EventCreate ==
  /\ Serving
  /\ ops < MaxOps
  /\ \E form \in Forms, fault \in BOOLEAN :
       LET raises == FailAt(form) # 0
           pending == IF raises THEN events ELSE Flush(events, <<FormEvent(form)>>)
           failed == raises \/ fault
                     \/ RowViolates(FormEvent(form), categories, fk_enforced)
       IN IF failed
          THEN events' = Rollback(events, pending) /\ Respond("create", 0, form, "500")
          ELSE events' = Commit(events, pending) /\ Respond("create", 0, form, "302")

\* Ids a request names: those of the table and one that is not there.
RequestIds == EventIds(events) \cup {NewId(EventIds(events))}

\* event_detail, POST (lines 216, 220-232)
EventUpdate ==
  /\ Serving
  /\ ops < MaxOps
  /\ \E event_id \in RequestIds, form \in Forms, fault \in BOOLEAN :
       IF event_id \notin EventIds(events)
       THEN UNCHANGED events /\ Respond("update", event_id, form, "404")
       ELSE LET event == CHOOSE e \in events : e.event_id = event_id
                dirty == Assigned(event, form)
                pending == (events \ {event}) \cup {dirty}
                failed == FailAt(form) # 0 \/ fault
                          \/ RowViolates(dirty, categories, fk_enforced)
            IN IF failed
               THEN events' = Rollback(events, pending)
                    /\ Respond("update", event_id, form, "500")
               ELSE events' = Commit(events, pending)
                    /\ Respond("update", event_id, form, "302")

\* event_delete (lines 234-243)
EventDelete ==
  /\ Serving
  /\ ops < MaxOps
  /\ \E event_id \in RequestIds, fault \in BOOLEAN :
       IF event_id \notin EventIds(events)
       THEN UNCHANGED events /\ Respond("delete", event_id, <<>>, "404")
       ELSE LET event == CHOOSE e \in events : e.event_id = event_id
                pending == events \ {event}
            IN IF fault
               THEN events' = Rollback(events, pending)
                    /\ Respond("delete", event_id, <<>>, "500")
               ELSE events' = Commit(events, pending)
                    /\ Respond("delete", event_id, <<>>, "302")

\* ---------------------------------------------------------- process
\* The process ends (app.run stopped, or an exception left init_db) and is
\* started again: lines 246-249 run init_db on the store as it was left.
Restart ==
  /\ pc \in {"returned", "serving", "raised"}
  /\ runs < MaxRuns
  /\ runs' = runs + 1
  /\ pc' = "start"
  /\ session' = <<>>
  /\ NoFrame
  /\ ret' = -1
  /\ outcome' = <<>>
  /\ before' = {}
  /\ req' = NoReq
  /\ resp' = "none"
  /\ UNCHANGED <<store, fk_enforced, boot, ops>>

\* Whether SQLite checks foreign keys is the library build's default (the
\* source issues no PRAGMA foreign_keys), so both are initial states.
\* Stores a first start can find: no file, a file whose tables are empty,
\* and files left by versions of the program whose categories_list had
\* three or six names (the case line 115 is written for).
OldCategories(n) ==
  {[category_id |-> i,
    category_name |-> IF i \in DOMAIN categories_list THEN categories_list[i] ELSE "etc"] :
   i \in 1..n}

InitialStores ==
  {<<FALSE, {}, {}>>, <<TRUE, {}, {}>>, <<TRUE, OldCategories(3), {OldEvent}>>,
   <<TRUE, OldCategories(6), {OldEvent}>>}

Init ==
  /\ \E st \in InitialStores :
       db_exists = st[1] /\ categories = st[2] /\ events = st[3]
  /\ fk_enforced \in BOOLEAN
  /\ session = <<>>
  /\ pc = "start"
  /\ data_list = ListOf(<<>>)
  /\ cat_id = 0
  /\ key_map = <<>>
  /\ idx = 0
  /\ count = 0
  /\ ret_to = "none"
  /\ ret = -1
  /\ outcome = <<>>
  /\ before = {}
  /\ boot = NoBoot
  /\ req = NoReq
  /\ resp = "none"
  /\ ops = 0
  /\ runs = 1

Next ==
  \/ InitDb
  \/ FestivalDataset
  \/ PerformanceDataset
  \/ LoadBegin
  \/ LoadRecord
  \/ LoadCommit
  \/ EventCreate
  \/ EventUpdate
  \/ EventDelete
  \/ Restart

Spec == Init /\ [][Next]_vars

\* =========================================================== claims
Range(f) == {f[i] : i \in DOMAIN f}

Staged(o) == {i \in DOMAIN o : o[i] = "staged"}

SeedNames == Range(categories_list)

\* The rows the running or last call of load_data_into_db added to the table.
RowsAdded == events \ before

\* init_db has just returned and no request has been served since.
JustBooted == pc = "returned"

\* C1: in every call init_db makes, a record whose mapped start or end date
\* is missing, empty or not parseable is skipped: the pass over it stages no
\* row and raises nothing, the loop goes on, and the rows the session holds
\* are those of the other records, none of them in the table yet.
C1_UndatedRecordIsSkipped ==
  pc \in {"loop", "raised"} =>
    /\ \A i \in DOMAIN outcome :
         data_list.items[i] \in UndatedItems(key_map) => outcome[i] = "skipped"
    /\ pc = "loop" =>
         /\ Len(session) = Cardinality(Staged(outcome))
         /\ Len(outcome) = idx - 1
         /\ events = before

\* C1 witness: a record without usable dates was skipped and the record
\* after it was staged.
C1_Witness ==
  /\ pc = "loop"
  /\ Len(outcome) = 2
  /\ data_list.items[1] \in UndatedItems(key_map)
  /\ outcome = <<"skipped", "staged">>
  /\ Len(session) = 1

\* C2: when load_data_into_db returns, the count it returns is the number of
\* rows the call added to table event, and no row that was there is gone;
\* for the empty list it returns 0 and adds nothing.
C2_CountEqualsRowsAdded ==
  pc = "exit" =>
    /\ ret = Cardinality(RowsAdded)
    /\ before \subseteq events
    /\ (outcome = <<>> => ret = 0 /\ events = before)

\* C2 witness: a call over a valid and an invalid record has returned 1.
C2_Witness ==
  /\ pc = "exit"
  /\ ret = 1
  /\ Cardinality(RowsAdded) = 1
  /\ \E i, j \in DOMAIN outcome : outcome[i] = "staged" /\ outcome[j] = "skipped"

\* C3: a failure while one record is processed is logged and the loop goes
\* on to the next record; no record makes an exception leave the loop.
C3_RecordFailureNeverAbortsBatch ==
  \A i \in DOMAIN outcome : outcome[i] # "raised"

\* C4 as claimed: when init_db returns from a store that existed and held
\* exactly 5 categories, the Category and Event rows are what they were.
C4_NoTriggerLeavesStore ==
  (JustBooted /\ ~boot.stale) =>
    /\ categories = boot.categories
    /\ events = boot.events

\* C4 as amended: from a store that existed, held exactly 5 categories and
\* at least one event, init_db goes straight to its return, without the
\* initialisation, and the Category and Event rows are what they were.
C4_NoTriggerWithEventsLeavesStore ==
  (~boot.stale /\ boot.events # {} /\ pc \notin {"start", "serving"}) =>
    /\ pc = "returned"
    /\ ~boot.entered
    /\ db_exists
    /\ categories = boot.categories
    /\ events = boot.events

\* C4 witness: a later start found 5 categories and an event, and returned.
C4_Witness ==
  /\ JustBooted
  /\ runs > 1
  /\ ~boot.stale
  /\ Cardinality(boot.categories) = 5
  /\ boot.events # {}
  /\ events = boot.events

\* C5: no dataset file makes an exception leave init_db: whatever the two
\* files hold, the bootstrap goes on to its return.
C5_DatasetNeverFailsBootstrap == pc # "raised"

\* C6: every Event row's category_id is the id of a Category row.
C6_CategoryIdResolves ==
  \A e \in events : e.category_id \in CategoryIds(categories)

\* C7: a create, update or delete request that fails (500) or finds no
\* event (404) leaves both tables as they were; one that succeeds (302) has
\* its change in the table: the created row with the form's title in
\* addition to the old rows, the updated row carrying the form's title and
\* location with every other row as it was, the deleted row gone and every
\* other row as it was.
C7_CommitOrRollback ==
  [][ops' = ops + 1 =>
       /\ categories' = categories
       /\ resp' \in {"500", "404"} => events' = events
       /\ (resp' = "302" /\ req'.op = "create") =>
            /\ events \subseteq events'
            /\ \E e \in events' \ events :
                 /\ events' = events \cup {e}
                 /\ e.title = Str(req'.form.title)
                 /\ e.location = Str(req'.form.location)
       /\ (resp' = "302" /\ req'.op = "update") =>
            \E old \in events, new \in events' :
              /\ old.event_id = req'.event_id
              /\ new.event_id = req'.event_id
              /\ events' \ {new} = events \ {old}
              /\ new.title = Str(req'.form.title)
              /\ new.location = Str(req'.form.location)
       /\ (resp' = "302" /\ req'.op = "delete") =>
            \E old \in events :
              /\ old.event_id = req'.event_id
              /\ events' = events \ {old}]_vars

\* C7 witness: an update whose start date does not parse, after its title
\* was assigned, was answered 500 and the event still has its old title.
C7_Witness ==
  /\ resp = "500"
  /\ req.op = "update"
  /\ req.form = Form(DSlash, <<"1">>)
  /\ \E e \in events : e.event_id = req.event_id /\ e.title # Str(<<"B">>)

\* C8: once init_db has found a category count that is neither 0 nor 5, the
\* Category table holds exactly 5 rows, one per name of categories_list, and
\* the rebuilt store starts without the old Event rows.
C8_MismatchRebuildsFiveCategories ==
  Cardinality(boot.categories) \notin {0, 5} =>
    /\ db_exists
    /\ Cardinality(categories) = 5
    /\ CategoryNames(categories) = SeedNames
    /\ pc = "festival" => events = {}

\* C8 witness: init_db found 3 categories and has returned.
C8_Witness ==
  /\ JustBooted
  /\ Cardinality(boot.categories) = 3
  /\ boot.events # {}

\* C9: once init_db has found the 5 categories of categories_list, the
\* Category table stays those 5 rows: no name occurs twice, whether or not
\* the run entered the seeding step.
C9_ReseedingAddsNoDuplicate ==
  (Cardinality(boot.categories) = 5 /\ CategoryNames(boot.categories) = SeedNames) =>
    /\ categories = boot.categories
    /\ Cardinality(CategoryNames(categories)) = Cardinality(categories)

\* C9 witness: a run found the 5 categories, entered the seeding step again
\* and returned.
C9_Witness ==
  /\ JustBooted
  /\ boot.entered
  /\ Cardinality(boot.categories) = 5
  /\ CategoryNames(boot.categories) = SeedNames

\* C10: no row of the batch is in table event before the commit that
\* follows the last record; and when a call has ended after it staged a row
\* for a valid record and met an error on a later record, every row it
\* staged is in the table.
C10_SingleCommitKeepsEarlierRows ==
  /\ pc = "loop" => events = before
  /\ (pc \in {"performance", "returned"} /\ ret >= 0) =>
       Cardinality(RowsAdded) = Cardinality(Staged(outcome))
  /\ pc = "raised" =>
       \A i, j \in DOMAIN outcome :
         (/\ i < j
          /\ data_list.items[i] = ItemGood(key_map)
          /\ outcome[i] = "staged"
          /\ outcome[j] # "staged")
           => Cardinality(RowsAdded) = Cardinality(Staged(outcome))

====
